---------------------------- MODULE Spec2Model ----------------------------
(***************************************************************************)
(* Prescriptions management system: the SQL-backed prescriptions           *)
(* repository (create_prescription, get_prescriptions,                     *)
(* get_prescription_by_id, fill_prescription), the flat-row aggregation    *)
(* fold, the pagination policy, the in-memory prescriptions repository     *)
(* and the patients, pharmacists and drugs services, with the validating   *)
(* constructors in front of them (PESEL numbers, drug attributes, the      *)
(* NewPrescription builder, Prescription::fill).                           *)
(*                                                                         *)
(* Specifications:                                                         *)
(*   Spec         the SQL-backed repository: one create_prescription call  *)
(*                at a time, split at its await points, interleaved with   *)
(*                reads                                                    *)
(*   SpecFold     the aggregation fold applied to bounded joined row       *)
(*                sequences                                                *)
(*   SpecPage     the pagination policy applied to bounded (page,          *)
(*                page_size)                                               *)
(*   SpecFill     fill_prescription and get_prescriptions of the           *)
(*                SQL-backed repository on a bounded store                 *)
(*   SpecMem      the in-memory repository under creates, reads by id and  *)
(*                interleaved fill workflows                               *)
(*   SpecService  interleaved calls on the services above their store      *)
(*   SpecNulls    the aggregation fold on rows whose fill columns are      *)
(*                null independently of each other                         *)
(*   SpecRead     the two reads on stores with drugless prescriptions      *)
(*   SpecExpiry   the fill workflow on a stored prescription while the     *)
(*                clock passes its end date                                *)
(*   SpecDrug     interleaved create_drug and get_drug_by_id calls         *)
(*   SpecBuild    NewPrescription::add_drug calls on a draft, then its     *)
(*                creation in the in-memory repository                     *)
(*   SpecPesel    the PESEL validation on valid numbers and their          *)
(*                single-digit changes                                     *)
(***************************************************************************)
EXTENDS Integers, Sequences, FiniteSets, TLC

(***************************************************************************)
(* Bounds of the model.                                                    *)
(***************************************************************************)
\* number of NewPrescription values the callers build (ids 1..MaxPrescriptions)
MaxPrescriptions == 2
\* largest number of line items of a NewPrescription
MaxLines == 2
\* number of prescription ids occurring in the row sequences given to the fold
NumFoldIds == 2
\* largest number of joined rows given to the fold
MaxFoldRows == 3
\* largest small page / page_size argument tried (next to the edge values)
MaxPageArg == 3
\* largest number of rows of prescription_fills
MaxFills == 1
\* number of pharmacists, each running one fill workflow on the in-memory repository
NumPharmacists == 2
\* number of calls made on the patients and pharmacists services
NumCalls == 2

(***************************************************************************)
(* Option<T>: None is the empty set, Some(v) the singleton {v}.            *)
(***************************************************************************)
None == {}

Some(v) == {v}

unwrap_or(o, d) == IF o = None THEN d ELSE CHOOSE v \in o : TRUE

unwrap(o) == CHOOSE v \in o : TRUE

Min(a, b) == IF a < b THEN a ELSE b

Max(a, b) == IF a > b THEN a ELSE b

Range(s) == {s[i] : i \in 1..Len(s)}

\* every sequence that lists each element of the finite set S exactly once
RECURSIVE Orderings(_)
Orderings(S) ==
    IF S = {} THEN {<<>>}
    ELSE UNION {{<<x>> \o t : t \in Orderings(S \ {x})} : x \in S}

(***************************************************************************)
(* 16-bit signed integers (the page and page_size parameters).             *)
(***************************************************************************)
I16Min == -32768

I16Max == 32767

\* two's complement wrap-around of a 16-bit multiplication (release build)
Wrap16(x) == ((x - I16Min) % 65536) + I16Min

(***************************************************************************)
(* `quantity as i32`: the u32 quantity of a NewPrescribedDrug stored as a  *)
(* 32-bit signed integer.                                                  *)
(***************************************************************************)
I32Max == 2147483647

\* a u32 as its top bit and its low 31 bits: the value is top * 2^31 + low
U32(top, low) == [top |-> top, low |-> low]

\* an `as` cast never fails: the bits are kept and read as two's complement,
\* low - top * 2^31
AsI32(quantity) ==
    IF quantity.top = 1 THEN (quantity.low - I32Max) - 1 ELSE quantity.low


(***************************************************************************)
(* State.                                                                  *)
(***************************************************************************)
VARIABLES
    \* the store (committed, visible to every connection of the pool)
    prescriptions,        \* table prescriptions: rows [id, prescription_type, created_at]
    prescribed_drugs,     \* table prescribed_drugs: rows [id, prescription_id, drug_id, quantity]
    prescription_fills,   \* table prescription_fills: rows [id, prescription_id, pharmacist_id, created_at]
    now,                  \* the store's clock: created_at of the next inserted header
    next_pd_id,           \* the next Uuid::new_v4() of a prescribed-drug row
    \* the create_prescription call in flight
    create_pc,            \* "idle" | "header" | "drugs" | "commit"
    prescription,         \* its NewPrescription argument
    drug_ix,              \* index of the next prescribed drug to insert
    create_result,        \* what the latest create_prescription returned
    submitted,            \* every NewPrescription passed to create_prescription so far
    committed,            \* the ids for which create_prescription returned Ok(())
    \* the latest read call
    read_call,            \* [op, page, page_size, id] of the latest read
    read_result,          \* what it returned
    \* the fill workflows
    fills_built,          \* number of NewPrescriptionFill values the callers have built
    \* the aggregation fold on its own
    fold_pc, fold_rows, fold_rows2, fold_out, fold_out2,
    \* the pagination policy on its own
    page_pc, page_arg, page_size_arg, page_inline, page_shared,
    \* the in-memory prescriptions repository and the callers filling from it
    mem,                  \* InMemoryPrescriptionsRepository.prescriptions, a Vec<Prescription>
    mem_call,             \* the latest get_prescription_by_id of the in-memory repository
    mem_result,           \* what it returned
    filler,               \* per caller: its position in the fill workflow and what it holds
    \* the patients and pharmacists services above their store
    entities,             \* per entity kind: the stored entities [id, pesel_number]
    call,                 \* per service call: its position, arguments and result
    repository_calls,     \* the service calls that have reached the repository
    \* the identity-number validator on its own
    pesel_pc, pesel_arg, pesel_change, pesel_valid, pesel_changed_valid,
    \* a NewPrescription under construction
    draft,                \* the NewPrescription the caller is building
    add_call,             \* the latest add_drug: its arguments and the line items before it
    add_result            \* what it returned

vars == <<prescriptions, prescribed_drugs, prescription_fills, now, next_pd_id,
          create_pc, prescription, drug_ix, create_result, submitted, committed,
          read_call, read_result, fills_built,
          fold_pc, fold_rows, fold_rows2, fold_out, fold_out2,
          page_pc, page_arg, page_size_arg, page_inline, page_shared,
          mem, mem_call, mem_result, filler,
          entities, call, repository_calls,
          pesel_pc, pesel_arg, pesel_change, pesel_valid, pesel_changed_valid,
          draft, add_call, add_result>>

store_vars == <<prescriptions, prescribed_drugs, prescription_fills, now, next_pd_id>>

create_vars == <<create_pc, prescription, drug_ix, create_result, submitted, committed>>

read_vars == <<read_call, read_result>>

fold_vars == <<fold_pc, fold_rows, fold_rows2, fold_out, fold_out2>>

page_vars == <<page_pc, page_arg, page_size_arg, page_inline, page_shared>>

fill_vars == <<fills_built>>

mem_vars == <<mem, mem_call, mem_result, filler>>

svc_vars == <<entities, call, repository_calls>>

pesel_vars == <<pesel_pc, pesel_arg, pesel_change, pesel_valid, pesel_changed_valid>>

draft_vars == <<draft, add_call, add_result>>

ctor_vars == <<pesel_vars, draft_vars>>

sql_vars == <<store_vars, create_vars, read_vars>>

(***************************************************************************)
(* The aggregation fold of get_prescriptions and get_prescription_by_id.   *)
(* A joined row carries the prescription header, one prescribed drug and   *)
(* the nullable columns of the left-joined fill.                           *)
(***************************************************************************)
JoinedRow(p, d, f) ==
    [id |-> p.id, prescription_type |-> p.prescription_type, created_at |-> p.created_at,
     prescribed_drug_id |-> d.id, drug_id |-> d.drug_id, quantity |-> d.quantity,
     fill_id |-> IF f = None THEN None ELSE Some(unwrap(f).id),
     fill_pharmacist_id |-> IF f = None THEN None ELSE Some(unwrap(f).pharmacist_id),
     fill_created_at |-> IF f = None THEN None ELSE Some(unwrap(f).created_at),
     fill_updated_at |-> IF f = None THEN None ELSE Some(unwrap(f).created_at)]

\* a lookup that sees only the aggregate built last (rows assumed contiguous)
FindAdjacent(acc, prescription_id) ==
    IF Len(acc) > 0 /\ acc[Len(acc)].id = prescription_id THEN Len(acc) ELSE 0

\* prescriptions.iter_mut().find(|p| p.id == prescription_id): the index of the
\* first aggregate with that id, 0 when there is none
Find(acc, prescription_id) ==
    IF \E i \in 1..Len(acc) : acc[i].id = prescription_id
    THEN CHOOSE i \in 1..Len(acc) :
            /\ acc[i].id = prescription_id
            /\ \A j \in 1..(i - 1) : acc[j].id # prescription_id
    ELSE 0

PrescribedDrugOf(row) ==
    [id |-> row.prescribed_drug_id, prescription_id |-> row.id,
     drug_id |-> row.drug_id, quantity |-> row.quantity]

\* prescription_fill_pharmacist_id.unwrap(), prescription_fill_created_at
\* .unwrap() and prescription_fill_updated_at.unwrap() panic on a null column
\* next to a non-null fill id
FillPanics(row) ==
    /\ row.fill_id # None
    /\ \/ row.fill_pharmacist_id = None
       \/ row.fill_created_at = None
       \/ row.fill_updated_at = None

\* a fold that never attaches the fill
NoFillOf(row) == None

\* let fill = if let Some(prescription_fill_id) = prescription_fill_id {...}
FillOf(row) ==
    IF row.fill_id # None
    THEN Some([id |-> unwrap(row.fill_id), prescription_id |-> row.id,
               pharmacist_id |-> unwrap(row.fill_pharmacist_id),
               created_at |-> unwrap(row.fill_created_at)])
    ELSE None

\* a fold that keeps only the prescribed drug of the latest row
AssignDrug(p, prescribed_drug) ==
    [p EXCEPT !.prescribed_drugs = <<prescribed_drug>>]

\* prescription.prescribed_drugs.push(prescribed_drug)
PushDrug(p, prescribed_drug) ==
    [p EXCEPT !.prescribed_drugs = Append(@, prescribed_drug)]

NewAggregate(row) ==
    [id |-> row.id, prescription_type |-> row.prescription_type,
     created_at |-> row.created_at,
     prescribed_drugs |-> <<PrescribedDrugOf(row)>>,
     fill |-> FillOf(row)]

\* a fold that leaves the fill out when one of its columns is null
FoldStepDefaulting(acc, row) ==
    LET i == Find(acc.list, row.id)
    IN IF i # 0
       THEN [acc EXCEPT !.list[i] = PushDrug(@, PrescribedDrugOf(row))]
       ELSE IF FillPanics(row)
            THEN [acc EXCEPT !.list =
                    Append(@, [id |-> row.id, prescription_type |-> row.prescription_type,
                               created_at |-> row.created_at,
                               prescribed_drugs |-> <<PrescribedDrugOf(row)>>,
                               fill |-> None])]
            ELSE [acc EXCEPT !.list = Append(@, NewAggregate(row))]

\* the body of `for row in prescriptions_from_db`, on the accumulator
\* [panic, list]: after a panic nothing more happens
FoldStep(acc, row) ==
    IF acc.panic THEN acc
    ELSE LET i == Find(acc.list, row.id)
         IN IF i # 0
            THEN [acc EXCEPT !.list[i] = PushDrug(@, PrescribedDrugOf(row))]
            ELSE IF FillPanics(row)
                 THEN [acc EXCEPT !.panic = TRUE]
                 ELSE [acc EXCEPT !.list = Append(@, NewAggregate(row))]

RECURSIVE FoldFrom(_, _, _)
FoldFrom(acc, rows, i) ==
    IF i > Len(rows) THEN acc ELSE FoldFrom(FoldStep(acc, rows[i]), rows, i + 1)

\* let mut prescriptions = vec![]; for row in ... { ... }
Aggregate(rows) == FoldFrom([panic |-> FALSE, list |-> <<>>], rows, 1)

(***************************************************************************)
(* The pagination policy.                                                  *)
(***************************************************************************)
DefaultPage == 0

DefaultPageSize == 10

\* page * page_size on i16: exact when it fits; otherwise the build decides,
\* a panic with overflow checks (debug), two's complement wrap-around without
Mul16(a, b, checks) ==
    IF a * b >= I16Min /\ a * b <= I16Max
    THEN [panic |-> FALSE, v |-> a * b]
    ELSE IF checks THEN [panic |-> TRUE, v |-> 0]
         ELSE [panic |-> FALSE, v |-> Wrap16(a * b)]

\* the policy written inline in PrescriptionsRepository::get_prescriptions
InlinePagination(page, page_size, checks) ==
    LET p == unwrap_or(page, DefaultPage)
        s == unwrap_or(page_size, DefaultPageSize)
    IN IF s < 1 \/ p < 0
       THEN [tag |-> "InvalidPageOrPageSize", limit |-> 0, offset |-> 0]
       ELSE LET m == Mul16(p, s, checks)
            IN IF m.panic THEN [tag |-> "Panic", limit |-> 0, offset |-> 0]
               ELSE [tag |-> "Ok", limit |-> s, offset |-> m.v]

\* utils::pagination::get_pagination_params, on i64, used by the in-memory
\* prescriptions repository and the per-entity listings
get_pagination_params(page, page_size) ==
    LET p == unwrap_or(page, DefaultPage)
        s == unwrap_or(page_size, DefaultPageSize)
    IN IF s < 1 \/ p < 0
       THEN [tag |-> "InvalidPageOrPageSize", limit |-> 0, offset |-> 0]
       ELSE [tag |-> "Ok", limit |-> s, offset |-> p * s]

(***************************************************************************)
(* The queries of the SQL-backed repository.                               *)
(***************************************************************************)
\* SELECT * FROM prescriptions ORDER BY created_at ASC
ByCreatedAt ==
    CHOOSE s \in Orderings(prescriptions) :
        \A i, j \in 1..Len(s) : i < j => s[i].created_at <= s[j].created_at

\* ... LIMIT $1 OFFSET $2
Window(limit, offset) ==
    SubSeq(ByCreatedAt, offset + 1, Min(offset + limit, Cardinality(prescriptions)))

\* LEFT JOIN prescription_fills: the fills of p, or one all-null fill
FillsOf(p) ==
    LET fs == {f \in prescription_fills : f.prescription_id = p.id}
    IN IF fs = {} THEN {None} ELSE {Some(f) : f \in fs}

\* a join that keeps a prescription without prescribed drugs, as one row
\* with an empty prescribed drug
JoinKeepingDrugless(ps) ==
    UNION {{JoinedRow(p, d, f) :
                d \in IF \E x \in prescribed_drugs : x.prescription_id = p.id
                      THEN {x \in prescribed_drugs : x.prescription_id = p.id}
                      ELSE {[id |-> 0, prescription_id |-> p.id, drug_id |-> 0,
                             quantity |-> 0]},
                f \in FillsOf(p)} : p \in ps}

\* ... LEFT JOIN prescription_fills ... JOIN prescribed_drugs ...: the joined
\* rows of the prescriptions ps, as a set; the query has no ORDER BY of its own
Join(ps) ==
    UNION {{JoinedRow(p, d, f) :
                d \in {x \in prescribed_drugs : x.prescription_id = p.id},
                f \in FillsOf(p)} : p \in ps}

Result(tag, list) == [tag |-> tag, list |-> list]

\* Ok(prescriptions) of the fold, or its panic
Folded(rows) ==
    LET acc == Aggregate(rows)
    IN IF acc.panic THEN Result("Panic", <<>>) ELSE Result("Ok", acc.list)

\* .bind(page_size).bind(offset): the store rejects a negative OFFSET
Bound(pg) ==
    IF pg.tag = "Ok" /\ pg.offset < 0
    THEN [tag |-> "StoreError", limit |-> 0, offset |-> 0]
    ELSE pg

\* a listing whose LIMIT and OFFSET are applied to the joined rows
GetPrescriptionsResultsOfRowWindow(page, page_size, checks) ==
    LET pg == Bound(InlinePagination(page, page_size, checks))
    IN IF pg.tag # "Ok" THEN {Result(pg.tag, <<>>)}
       ELSE {Folded(SubSeq(rows, pg.offset + 1, Min(pg.offset + pg.limit, Len(rows)))) :
                rows \in Orderings(Join(prescriptions))}

\* the results get_prescriptions can return in a build with (checks) or without
\* overflow checks: one per order in which the store may deliver the joined rows
GetPrescriptionsResults(page, page_size, checks) ==
    LET pg == Bound(InlinePagination(page, page_size, checks))
    IN IF pg.tag # "Ok" THEN {Result(pg.tag, <<>>)}
       ELSE {Folded(rows) : rows \in Orderings(Join(Range(Window(pg.limit, pg.offset))))}

\* prescriptions.first().ok_or(GetPrescriptionError::NotFound(id))
First(res) ==
    IF res.tag # "Ok" THEN res
    ELSE IF res.list = <<>> THEN Result("NotFound", <<>>)
    ELSE Result("Ok", <<res.list[1]>>)

GetPrescriptionByIdResults(id) ==
    {First(Folded(rows)) : rows \in Orderings(Join({p \in prescriptions : p.id = id}))}

(***************************************************************************)
(* PrescriptionsRepository::create_prescription, one step per await.       *)
(***************************************************************************)
PrescriptionTypes == {"Regular"}

\* the k-th add_drug of a caller: drug k in quantity k
LineItem(k) == [drug_id |-> k, quantity |-> U32(0, k)]

\* the prescribed_drugs the callers build: the first n line items, n = 0..MaxLines
LineItemSeqs == {[k \in 1..n |-> LineItem(k)] : n \in 0..MaxLines}


\* NewPrescription::validate
Validate(np) == Len(np.prescribed_drugs) >= 1 /\ Len(np.prescribed_drugs) <= 10

\* end_date of NewPrescription::new: 30 days after the start date, a year
\* after it for chronic-disease drugs
EndDate(prescription_type, start_date) ==
    start_date + (IF prescription_type = "ForChronicDiseaseDrugs" THEN 365 ELSE 30)

NoPrescription ==
    [id |-> 0, prescription_type |-> "Regular", prescribed_drugs |-> <<>>,
     start_date |-> 0, end_date |-> 0]

Returned(tag, id) == [tag |-> tag, id |-> id]

\* prescription.validate()?; let transaction = self.pool.begin().await?;
CreateCall(np) ==
    /\ create_pc = "idle"
    /\ np.id = Cardinality(submitted) + 1
    /\ submitted' = submitted \cup {np}
    /\ IF ~Validate(np)
       THEN /\ create_result' = Returned("ValidationError", np.id)
            /\ UNCHANGED <<create_pc, prescription, drug_ix>>
       ELSE \E ok \in BOOLEAN :
                IF ok
                THEN /\ create_pc' = "header"
                     /\ prescription' = np
                     /\ drug_ix' = 1
                     /\ create_result' = Returned("Pending", np.id)
                ELSE /\ create_result' = Returned("StoreError", np.id)
                     /\ UNCHANGED <<create_pc, prescription, drug_ix>>
    /\ UNCHANGED <<store_vars, committed, read_vars, fill_vars, fold_vars, page_vars,
                 mem_vars, svc_vars, ctor_vars>>

\* `?` on a failed await: the call returns the error; `transaction` is dropped,
\* which rolls back what was executed on it
ReturnError ==
    /\ create_pc' = "idle"
    /\ prescription' = NoPrescription
    /\ drug_ix' = 0
    /\ create_result' = Returned("StoreError", prescription.id)
    /\ UNCHANGED committed

\* INSERT INTO prescriptions ... .execute(self.pool).await?
\* executed on the pool, not on `transaction`: committed as soon as it returns
InsertHeader ==
    /\ create_pc = "header"
    /\ \E ok \in BOOLEAN :
        IF ok
        THEN /\ prescriptions' = prescriptions \cup
                    {[id |-> prescription.id,
                      prescription_type |-> prescription.prescription_type,
                      created_at |-> now]}
             /\ now' = now + 1
             /\ create_pc' = "drugs"
             /\ UNCHANGED <<prescribed_drugs, prescription_fills, next_pd_id,
                            prescription, drug_ix, create_result, committed>>
        ELSE /\ ReturnError
             /\ UNCHANGED store_vars
    /\ UNCHANGED <<submitted, read_vars, fill_vars, fold_vars, page_vars, mem_vars, svc_vars, ctor_vars>>

\* one iteration of `for prescribed_drug in &prescription.prescribed_drugs`:
\* INSERT INTO prescribed_drugs ... .execute(self.pool).await?
InsertPrescribedDrug ==
    /\ create_pc = "drugs"
    /\ drug_ix <= Len(prescription.prescribed_drugs)
    /\ \E ok \in BOOLEAN :
        IF ok
        THEN /\ prescribed_drugs' = prescribed_drugs \cup
                    {[id |-> next_pd_id,
                      prescription_id |-> prescription.id,
                      drug_id |-> prescription.prescribed_drugs[drug_ix].drug_id,
                      quantity |-> AsI32(prescription.prescribed_drugs[drug_ix].quantity)]}
             /\ next_pd_id' = next_pd_id + 1
             /\ drug_ix' = drug_ix + 1
             /\ UNCHANGED <<prescriptions, prescription_fills, now,
                            create_pc, prescription, create_result, committed>>
        ELSE /\ ReturnError
             /\ UNCHANGED store_vars
    /\ UNCHANGED <<submitted, read_vars, fill_vars, fold_vars, page_vars, mem_vars, svc_vars, ctor_vars>>

\* transaction.commit().await?; Ok(())
\* nothing was executed on `transaction`, so the commit changes no table
Commit ==
    /\ create_pc = "drugs"
    /\ drug_ix > Len(prescription.prescribed_drugs)
    /\ \E ok \in BOOLEAN :
        IF ok
        THEN /\ create_pc' = "idle"
             /\ create_result' = Returned("Ok", prescription.id)
             /\ committed' = committed \cup {prescription.id}
             /\ prescription' = NoPrescription
             /\ drug_ix' = 0
        ELSE ReturnError
    /\ UNCHANGED <<store_vars, submitted, read_vars, fill_vars, fold_vars, page_vars,
                 mem_vars, svc_vars, ctor_vars>>

(***************************************************************************)
(* The reads, each one statement against the store.                        *)
(***************************************************************************)
ReadCall(op, page, page_size, id) ==
    [op |-> op, page |-> page, page_size |-> page_size, id |-> id,
     stored |-> Cardinality(prescriptions), creating |-> create_pc # "idle"]

\* the (page, page_size) arguments tried against the store
PageArgs == {None, Some(-1), Some(1), Some(182)}

PageSizeArgs == {None, Some(0), Some(1), Some(182)}

GetPrescriptions(page, page_size) ==
    /\ read_call' = ReadCall("get_prescriptions", page, page_size, 0)
    /\ \E checks \in BOOLEAN :
            read_result' \in GetPrescriptionsResults(page, page_size, checks)
    /\ UNCHANGED <<store_vars, create_vars, fill_vars, fold_vars, page_vars, mem_vars, svc_vars, ctor_vars>>

GetPrescriptionById(id) ==
    /\ read_call' = ReadCall("get_prescription_by_id", None, None, id)
    /\ read_result' \in GetPrescriptionByIdResults(id)
    /\ UNCHANGED <<store_vars, create_vars, fill_vars, fold_vars, page_vars, mem_vars, svc_vars, ctor_vars>>

(***************************************************************************)
(* PrescriptionsRepository::fill_prescription: one INSERT on the pool.     *)
(***************************************************************************)
NewPrescriptionFill(id, prescription_id, pharmacist_id) ==
    [id |-> id, prescription_id |-> prescription_id, pharmacist_id |-> pharmacist_id]

\* the NewPrescriptionFill values the callers build: the k-th by pharmacist k,
\* for a stored prescription or for an id that no prescription has
NewPrescriptionFills ==
    {NewPrescriptionFill(k, prescription_id, k) :
        k \in 1..MaxFills, prescription_id \in 1..(NumFoldIds + 1)}

\* prescription_fills holds at most one row per prescription_id (and per id)
FillRowAccepted(nf) ==
    \A f \in prescription_fills : f.prescription_id # nf.prescription_id /\ f.id # nf.id

\* INSERT INTO prescription_fills (id, prescription_id, pharmacist_id)
\* ... .execute(self.pool).await?; Ok(())
FillPrescription(nf) ==
    /\ Cardinality(prescription_fills) < MaxFills
    /\ nf.id = Cardinality(prescription_fills) + 1
    /\ \E ok \in BOOLEAN :
        IF ok /\ FillRowAccepted(nf)
        THEN prescription_fills' = prescription_fills \cup
                    {[id |-> nf.id, prescription_id |-> nf.prescription_id,
                      pharmacist_id |-> nf.pharmacist_id, created_at |-> now]}
        ELSE UNCHANGED prescription_fills
    /\ UNCHANGED <<prescriptions, prescribed_drugs, now, next_pd_id,
                   create_vars, read_vars, fill_vars, fold_vars, page_vars,
                   mem_vars, svc_vars, ctor_vars>>

\* the day the callers' prescriptions start
StartDate == 1

NewPrescriptions ==
    [id : 1..MaxPrescriptions, prescription_type : PrescriptionTypes,
     prescribed_drugs : LineItemSeqs,
     start_date : {StartDate}, end_date : {EndDate("Regular", StartDate)}]

(***************************************************************************)
(* NewPrescription::new and add_drug: the caller builds the prescription   *)
(* before it is given to a repository.                                     *)
(***************************************************************************)
AllPrescriptionTypes ==
    {"Regular", "ForAntibiotics", "ForImmunologicalDrugs", "ForChronicDiseaseDrugs"}

\* NewPrescription::new(doctor_id, patient_id, start_date, prescription_type)
NewPrescriptionOf(id, prescription_type, start_date) ==
    [id |-> id, prescription_type |-> prescription_type, prescribed_drugs |-> <<>>,
     start_date |-> start_date, end_date |-> EndDate(prescription_type, start_date)]

\* an add_drug that takes any positive quantity
QuantityUnlimited(prescription_type) == 0

\* the largest quantity of one drug on a prescription of the type, 0 where
\* the type has no limit
QuantityLimit(prescription_type) ==
    CASE prescription_type = "ForAntibiotics" -> 1
      [] prescription_type = "ForImmunologicalDrugs" -> 2
      [] prescription_type = "ForChronicDiseaseDrugs" -> 4
      [] OTHER -> 0

\* a u32 above a small number
Above(quantity, limit) == quantity.top = 1 \/ quantity.low > limit

AddResult(tag, drug_id) == [tag |-> tag, drug_id |-> drug_id]

\* what add_drug(drug_id, quantity) returns on the prescription np
AddDrugResult(np, drug_id, quantity) ==
    IF Len(np.prescribed_drugs) >= 10 THEN AddResult("TooManyDrugs", drug_id)
    ELSE IF quantity = U32(0, 0) THEN AddResult("InvalidQuantity", drug_id)
    ELSE IF /\ QuantityLimit(np.prescription_type) # 0
            /\ Above(quantity, QuantityLimit(np.prescription_type))
         THEN AddResult("QuantityExceeded", drug_id)
    ELSE AddResult("Ok", drug_id)

\* the quantities a caller tries: 0, the small ones around the limits and
\* the smallest above i32::MAX for the first MaxLines line items, 1 afterwards
TriedQuantities(np) ==
    IF Len(np.prescribed_drugs) < MaxLines
    THEN {U32(0, q) : q \in 0..5} \cup {U32(1, 0)}
    ELSE {U32(0, 1)}

NoAdd == [drug_id |-> 0, quantity |-> U32(0, 0), before |-> <<>>]

\* prescription.add_drug(drug_id, quantity): on Ok the line item is pushed,
\* on an error the prescription is as it was
AddDrug(drug_id, quantity) ==
    /\ \A np \in submitted : np.id # draft.id
    /\ add_call' = [drug_id |-> drug_id, quantity |-> quantity,
                    before |-> draft.prescribed_drugs]
    /\ add_result' = AddDrugResult(draft, drug_id, quantity)
    /\ IF AddDrugResult(draft, drug_id, quantity).tag = "Ok"
       THEN draft' = [draft EXCEPT !.prescribed_drugs =
                        Append(@, [drug_id |-> drug_id, quantity |-> quantity])]
       ELSE UNCHANGED draft
    /\ UNCHANGED <<pesel_vars, sql_vars, fill_vars, fold_vars, page_vars,
                   mem_vars, svc_vars>>

(***************************************************************************)
(* InMemoryPrescriptionsRepository: a Vec<Prescription> behind an RwLock.  *)
(***************************************************************************)
\* the NewPrescription values given to the in-memory repository: those above
\* and one with a single line item in the smallest quantity above i32::MAX
MemNewPrescriptions ==
    NewPrescriptions \cup
        [id : 1..MaxPrescriptions, prescription_type : PrescriptionTypes,
         prescribed_drugs : {<<[drug_id |-> 1, quantity |-> U32(1, 0)]>>},
         start_date : {StartDate}, end_date : {EndDate("Regular", StartDate)}]

\* let prescription = Prescription { id: new_prescription.id, ..., fill: None, ... }
MemPrescription(np, at) ==
    [id |-> np.id, prescription_type |-> np.prescription_type, created_at |-> at,
     start_date |-> np.start_date, end_date |-> np.end_date,
     prescribed_drugs |->
        [k \in 1..Len(np.prescribed_drugs) |->
            [id |-> <<np.id, k>>, prescription_id |-> np.id,
             drug_id |-> np.prescribed_drugs[k].drug_id,
             quantity |-> AsI32(np.prescribed_drugs[k].quantity)]],
     fill |-> None]

\* self.prescriptions.write().unwrap().push(prescription.clone()); Ok(prescription)
MemCreatePrescription(np) ==
    /\ np.id = Cardinality(submitted) + 1
    /\ submitted' = submitted \cup {np}
    /\ committed' = committed \cup {np.id}
    /\ mem' = Append(mem, MemPrescription(np, Len(mem) + 1))
    /\ UNCHANGED <<mem_call, mem_result, filler, fill_vars, store_vars,
                   create_pc, prescription, drug_ix, create_result, read_vars,
                   fold_vars, page_vars, svc_vars, ctor_vars>>

\* .iter().find(|prescription| prescription.id == prescription_id): the index
\* of the first prescription with that id, 0 when there is none
MemFind(id) ==
    IF \E i \in 1..Len(mem) : mem[i].id = id
    THEN CHOOSE i \in 1..Len(mem) :
            mem[i].id = id /\ \A j \in 1..(i - 1) : mem[j].id # id
    ELSE 0

\* Some(prescription) => Ok(prescription.clone()),
\* None => Err(anyhow::anyhow!("Prescription not found"))
MemGetPrescriptionByIdResult(id) ==
    IF MemFind(id) # 0
    THEN Result("Ok", <<mem[MemFind(id)]>>)
    ELSE Result("Prescription not found", <<>>)

MemCall(id) == [id |-> id, stored |-> Len(mem)]

MemGetPrescriptionById(id) ==
    /\ mem_call' = MemCall(id)
    /\ mem_result' = MemGetPrescriptionByIdResult(id)
    /\ UNCHANGED <<mem, filler, fill_vars, sql_vars, fold_vars, page_vars, svc_vars, ctor_vars>>

\* let (page_size, offset) = get_pagination_params(page, page_size)?;
\* for i in offset..offset + page_size { match ...get(i as usize) {
\*     Some(prescription) => prescriptions.push(prescription.clone()), None => {} } }
\* (indices from 0 in the code, from 1 here)
MemGetPrescriptions(page, page_size) ==
    LET params == get_pagination_params(page, page_size)
    IN IF params.tag # "Ok"
       THEN Result(params.tag, <<>>)
       ELSE Result("Ok", SubSeq(mem, params.offset + 1,
                                Min(params.offset + params.limit, Len(mem))))

(***************************************************************************)
(* PatientsService, PharmacistsService and DrugsService above their        *)
(* repositories. create_* constructs the entity and then awaits the        *)
(* repository, so calls interleave between the two; get_*_by_id is one     *)
(* await.                                                                  *)
(***************************************************************************)
Kinds == {"patient", "pharmacist", "drug"}

\* the kinds created through a (name, pesel_number) constructor
PersonKinds == {"patient", "pharmacist"}

Calls == 1..NumCalls

\* the pesel_number arguments: two with a correct check digit and one with
\* a wrong one (the numbers of the services' tests)
PeselNumbers ==
    {<<9, 6, 0, 2, 1, 8, 0, 7, 2, 5, 0>>,
     <<9, 6, 0, 2, 1, 8, 0, 7, 2, 5, 1>>,
     <<9, 9, 0, 3, 1, 3, 0, 1, 3, 4, 7>>}

\* a weight vector whose last weight shares a factor with 10
PeselWeightsWithEven == <<9, 7, 3, 1, 9, 7, 3, 1, 9, 2>>

\* the weights under which the numbers the tests create entities with have
\* the check digit (10 - weighted sum mod 10) mod 10
PeselWeights == <<9, 7, 3, 1, 9, 7, 3, 1, 9, 7>>

RECURSIVE WeightedSum(_, _)
WeightedSum(digits, k) ==
    IF k = 0 THEN 0 ELSE digits[k] * PeselWeights[k] + WeightedSum(digits, k - 1)

\* the birth month of the embedded date YYMMDD, the century offset
\* (+20, +40, +60, +80) removed
PeselMonth(digits) == (digits[3] * 10 + digits[4]) % 20

PlausibleDate(digits) == PeselMonth(digits) \in 1..12

\* NewPatient::new / NewPharmacist::new accept the pesel_number: 11 digits,
\* the last one the check digit of the first ten, and a plausible date
ValidatePesel(digits) ==
    /\ Len(digits) = 11
    /\ digits[11] = (10 - (WeightedSum(digits, 10) % 10)) % 10
    /\ PlausibleDate(digits)

\* CreatePatientError::DomainError, CreatePharmacistError::ValidationError
ValidationVariant(kind) == IF kind = "patient" THEN "DomainError" ELSE "ValidationError"

\* {Create,Get}PatientError::RepositoryError, ...PharmacistError::DatabaseError,
\* GetDrugByIdError::DatabaseError
StorageVariant(kind) == IF kind = "patient" THEN "RepositoryError" ELSE "DatabaseError"

\* what a service call returned: Err(Variant(message)) ...
ServiceErr(variant, message) == [variant |-> variant, message |-> message, entity |-> None]

\* ... or Ok(entity)
ServiceOk(entity) == [variant |-> "Ok", message |-> "", entity |-> Some(entity)]

\* .map_err(|err| ...Error::RepositoryError(err.to_string())): every error of
\* the repository becomes the same variant around its message
MapErr(kind, err) == ServiceErr(StorageVariant(kind), err)

\* racing: another create was awaiting the repository when this one's
\* insert ran
IdleCall ==
    [pc |-> "idle", op |-> "none", kind |-> "none", pesel_number |-> <<>>, id |-> 0,
     racing |-> FALSE, result |-> ServiceErr("None", "")]

\* the store's uniqueness constraint on the identity number of a kind
UniqueViolation(kind, pesel_number) ==
    \E stored \in entities[kind] : stored.pesel_number = pesel_number

\* a create that goes to the repository with whatever it was given
CreateEntityUnchecked(c, kind, pesel_number) ==
    /\ call[c].pc = "idle"
    /\ call' = [call EXCEPT ![c] =
                    [pc |-> "repository", op |-> "create", kind |-> kind,
                     pesel_number |-> pesel_number, id |-> c, racing |-> FALSE,
                     result |-> ServiceErr("Pending", "")]]
    /\ UNCHANGED <<entities, repository_calls, sql_vars, fill_vars, fold_vars,
                   page_vars, mem_vars, ctor_vars>>

\* let new_patient = NewPatient::new(name, pesel_number)
\*     .map_err(|err| CreatePatientError::DomainError(err.to_string()))?;
\* the constructor gives the entity a fresh id; the call then awaits
\* self.repository.create_patient(new_patient)
CreateEntity(c, kind, pesel_number) ==
    /\ call[c].pc = "idle"
    /\ IF ValidatePesel(pesel_number)
       THEN call' = [call EXCEPT ![c] =
                        [pc |-> "repository", op |-> "create", kind |-> kind,
                         pesel_number |-> pesel_number, id |-> c, racing |-> FALSE,
                         result |-> ServiceErr("Pending", "")]]
       ELSE call' = [call EXCEPT ![c] =
                        [pc |-> "done", op |-> "create", kind |-> kind,
                         pesel_number |-> pesel_number, id |-> 0, racing |-> FALSE,
                         result |-> ServiceErr(ValidationVariant(kind),
                                               "invalid pesel number")]]
    /\ UNCHANGED <<entities, repository_calls, sql_vars, fill_vars, fold_vars,
                   page_vars, mem_vars, ctor_vars>>

\* a create that returns Ok(new_patient) whatever the repository returned
RepositoryCreateIgnoringErr(c) ==
    /\ call[c].pc = "repository"
    /\ repository_calls' = repository_calls \cup {c}
    /\ LET kind == call[c].kind
           entity == [id |-> call[c].id, pesel_number |-> call[c].pesel_number]
       IN /\ call' = [call EXCEPT ![c].pc = "done", ![c].result = ServiceOk(entity)]
          /\ IF UniqueViolation(kind, entity.pesel_number)
             THEN UNCHANGED entities
             ELSE entities' = [entities EXCEPT ![kind] = @ \cup {entity}]
    /\ UNCHANGED <<sql_vars, fill_vars, fold_vars, page_vars, mem_vars, ctor_vars>>

\* self.repository.create_patient(new_patient).await
\*     .map_err(|err| CreatePatientError::RepositoryError(err.to_string()))?;
\* Ok(created_patient)
\* the repository's insert is one statement: it is refused when the identity
\* number is stored already, and it may fail for any other reason
RepositoryCreate(c) ==
    /\ call[c].pc = "repository"
    /\ repository_calls' = repository_calls \cup {c}
    /\ LET kind == call[c].kind
           entity == [id |-> call[c].id, pesel_number |-> call[c].pesel_number]
           racing == \E d \in Calls \ {c} : call[d].pc = "repository"
       IN IF UniqueViolation(kind, entity.pesel_number)
          THEN /\ call' = [call EXCEPT ![c].pc = "done", ![c].racing = racing,
                                       ![c].result = MapErr(kind, "unique violation")]
               /\ UNCHANGED entities
          ELSE \E ok \in BOOLEAN :
                IF ok
                THEN /\ entities' = [entities EXCEPT ![kind] = @ \cup {entity}]
                     /\ call' = [call EXCEPT ![c].pc = "done", ![c].racing = racing,
                                             ![c].result = ServiceOk(entity)]
                ELSE /\ call' = [call EXCEPT ![c].pc = "done", ![c].racing = racing,
                                             ![c].result = MapErr(kind, "storage failure")]
                     /\ UNCHANGED entities
    /\ UNCHANGED <<sql_vars, fill_vars, fold_vars, page_vars, mem_vars, ctor_vars>>

\* let patient = self.repository.get_patient_by_id(patient_id).await
\*     .map_err(|err| GetPatientByIdError::RepositoryError(err.to_string()))?;
\* Ok(patient)
\* the repository returns the entity, a not-found error when no entity has
\* the id, or any other failure
GetEntityById(c, kind, id) ==
    /\ call[c].pc = "idle"
    /\ repository_calls' = repository_calls \cup {c}
    /\ \E ok \in BOOLEAN :
        LET found == {stored \in entities[kind] : stored.id = id}
            returned ==
                IF ~ok THEN MapErr(kind, "storage failure")
                ELSE IF found = {} THEN MapErr(kind, "not found")
                ELSE ServiceOk(unwrap(found))
        IN call' = [call EXCEPT ![c] =
                        [pc |-> "done", op |-> "get", kind |-> kind,
                         pesel_number |-> <<>>, id |-> id, racing |-> FALSE,
                         result |-> returned]]
    /\ UNCHANGED <<entities, sql_vars, fill_vars, fold_vars, page_vars, mem_vars, ctor_vars>>

(***************************************************************************)
(* DrugsService::create_drug: NewDrug::new on the six arguments, then the  *)
(* repository.                                                             *)
(***************************************************************************)
DrugContentTypes == {"SolidPills", "LiquidPills", "BottleOfLiquid", "BottleOfPills"}

Attributes == {"pills_count", "mg_per_pill", "ml_per_pill", "volume_ml"}

\* the arguments of create_drug: each attribute absent or present with a
\* value of its own (those of the tests, and one for ml_per_pill)
DrugArgs ==
    [content_type : DrugContentTypes,
     pills_count : {None, Some(20)}, mg_per_pill : {None, Some(300)},
     ml_per_pill : {None, Some(5)}, volume_ml : {None, Some(400)}]

\* the attributes a content type requires; it forbids the others
RequiredAttributes(content_type) ==
    CASE content_type = "SolidPills" -> {"pills_count", "mg_per_pill"}
      [] content_type = "LiquidPills" -> {"pills_count", "ml_per_pill"}
      [] content_type = "BottleOfLiquid" -> {"volume_ml"}
      [] content_type = "BottleOfPills" -> {"pills_count", "volume_ml"}

\* NewDrug::new accepts the arguments
ValidateDrug(args) ==
    {a \in Attributes : args[a] # None} = RequiredAttributes(args.content_type)

\* the Drug of the arguments with the id NewDrug::new gave it
DrugOf(id, args) ==
    [id |-> id, content_type |-> args.content_type,
     pills_count |-> args.pills_count, mg_per_pill |-> args.mg_per_pill,
     ml_per_pill |-> args.ml_per_pill, volume_ml |-> args.volume_ml]

DrugCall(pc, id, args, result) ==
    [pc |-> pc, op |-> "create", kind |-> "drug", pesel_number |-> <<>>, id |-> id,
     racing |-> FALSE, result |-> result, args |-> args]

\* a create_drug that goes to the repository with whatever it was given
CreateDrugUnchecked(c, args) ==
    /\ call[c].pc = "idle"
    /\ call' = [call EXCEPT ![c] = DrugCall("repository", c, args, ServiceErr("Pending", ""))]
    /\ UNCHANGED <<entities, repository_calls, sql_vars, fill_vars, fold_vars,
                   page_vars, mem_vars, ctor_vars>>

\* let new_drug = NewDrug::new(name, content_type, pills_count, mg_per_pill,
\*     ml_per_pill, volume_ml)
\*     .map_err(|err| CreateDrugError::ValidationError(err.to_string()))?;
CreateDrug(c, args) ==
    /\ call[c].pc = "idle"
    /\ IF ValidateDrug(args)
       THEN call' = [call EXCEPT ![c] =
                        DrugCall("repository", c, args, ServiceErr("Pending", ""))]
       ELSE call' = [call EXCEPT ![c] =
                        DrugCall("done", 0, args,
                                 ServiceErr("ValidationError", "invalid drug"))]
    /\ UNCHANGED <<entities, repository_calls, sql_vars, fill_vars, fold_vars,
                   page_vars, mem_vars, ctor_vars>>

\* let created_drug = self.repository.create_drug(new_drug).await
\*     .map_err(|err| CreateDrugError::DatabaseError(err.to_string()))?;
\* Ok(created_drug)
\* the repository stores the drug as it is given, or fails
RepositoryCreateDrug(c) ==
    /\ call[c].pc = "repository"
    /\ call[c].kind = "drug"
    /\ repository_calls' = repository_calls \cup {c}
    /\ \E ok \in BOOLEAN :
        IF ok
        THEN /\ entities' = [entities EXCEPT !["drug"] =
                                @ \cup {DrugOf(call[c].id, call[c].args)}]
             /\ call' = [call EXCEPT ![c].pc = "done",
                                     ![c].result = ServiceOk(DrugOf(call[c].id, call[c].args))]
        ELSE /\ call' = [call EXCEPT ![c].pc = "done",
                                     ![c].result = MapErr("drug", "storage failure")]
             /\ UNCHANGED entities
    /\ UNCHANGED <<sql_vars, fill_vars, fold_vars, page_vars, mem_vars, ctor_vars>>

(***************************************************************************)
(* The fill workflow of a pharmacist on the in-memory repository: read the *)
(* prescription, build the fill with Prescription::fill, call              *)
(* fill_prescription. fill_prescription takes the read lock to find the    *)
(* prescription and then the write lock to insert, so other callers may    *)
(* run in between.                                                         *)
(***************************************************************************)
Fillers == 1..NumPharmacists

\* pc: "idle" | "read" | "call" | "insert" | "done"
\* target: what fill_prescription found under the read lock,
\*         "none" | "missing" | "unfilled" | "filled"
IdleFiller ==
    [pc |-> "idle", seen |-> Result("None", <<>>), fill |-> None,
     target |-> "none", index |-> 0, copy |-> None, returned |-> "None"]

\* let prescription_from_db = repository.get_prescription_by_id(id).await
FillerRead(c, id) ==
    /\ filler[c].pc = "idle"
    /\ filler' = [filler EXCEPT ![c].pc = "read",
                                ![c].seen = MemGetPrescriptionByIdResult(id)]
    /\ UNCHANGED <<mem, mem_call, mem_result, fill_vars, sql_vars,
                   fold_vars, page_vars, svc_vars, ctor_vars>>

FillResult(tag, fill) == [tag |-> tag, fill |-> fill]

\* a fill that does not look at the end date
FillWhateverTheDate(p, fill_id, pharmacist_id, at) ==
    IF p.fill # None THEN FillResult("AlreadyFilled", None)
    ELSE FillResult("Ok", Some(NewPrescriptionFill(fill_id, p.id, pharmacist_id)))

\* Prescription::fill(pharmacist_id) at the time `at`: a NewPrescriptionFill
\* with a fresh id when the prescription has no fill and has not expired,
\* an error otherwise
Fill(p, fill_id, pharmacist_id, at) ==
    IF p.fill # None THEN FillResult("AlreadyFilled", None)
    ELSE IF at > p.end_date THEN FillResult("Expired", None)
    ELSE FillResult("Ok", Some(NewPrescriptionFill(fill_id, p.id, pharmacist_id)))

\* prescription_from_db.fill(pharmacist.id): the workflow ends when the read
\* or the build returned an error
FillerBuild(c) ==
    /\ filler[c].pc = "read"
    /\ IF filler[c].seen.tag # "Ok"
       THEN /\ filler' = [filler EXCEPT ![c].pc = "done",
                                        ![c].returned = filler[c].seen.tag]
            /\ UNCHANGED fills_built
       ELSE LET built == Fill(filler[c].seen.list[1], fills_built + 1, c, now)
            IN IF built.tag # "Ok"
               THEN /\ filler' = [filler EXCEPT ![c].pc = "done",
                                                ![c].returned = built.tag]
                    /\ UNCHANGED fills_built
               ELSE /\ filler' = [filler EXCEPT ![c].pc = "call", ![c].fill = built.fill]
                    /\ fills_built' = fills_built + 1
    /\ UNCHANGED <<mem, mem_call, mem_result, sql_vars, fold_vars, page_vars, svc_vars, ctor_vars>>

\* a caller that builds the NewPrescriptionFill itself (its fields are public)
FillerSubmit(c, prescription_id) ==
    /\ filler[c].pc = "idle"
    /\ filler' = [filler EXCEPT
                    ![c].pc = "call",
                    ![c].fill = Some(NewPrescriptionFill(fills_built + 1, prescription_id, c))]
    /\ fills_built' = fills_built + 1
    /\ UNCHANGED <<mem, mem_call, mem_result, sql_vars, fold_vars, page_vars, svc_vars, ctor_vars>>

\* let prescription_fill = PrescriptionFill { ..., created_at: Utc::now(), ... }
PrescriptionFillOf(nf, at) ==
    [id |-> nf.id, prescription_id |-> nf.prescription_id,
     pharmacist_id |-> nf.pharmacist_id, created_at |-> at]

\* let prescriptions = self.prescriptions.read().unwrap().to_owned();
\* let (index, prescription) = prescriptions.iter().enumerate()
\*     .map(|(i, p)| (i, { p.fill = Some(prescription_fill.clone()); p }))
\*     .find(|(_, p)| p.id == new_prescription_fill.prescription_id).unwrap();
\* the unwrap panics when no prescription has that id
FillLocate(c) ==
    /\ filler[c].pc = "call"
    /\ LET nf == unwrap(filler[c].fill)
           i == MemFind(nf.prescription_id)
       IN IF i = 0
          THEN filler' = [filler EXCEPT ![c].pc = "done",
                                        ![c].target = "missing",
                                        ![c].returned = "Panic"]
          ELSE filler' = [filler EXCEPT
                            ![c].pc = "insert",
                            ![c].target = IF mem[i].fill = None THEN "unfilled" ELSE "filled",
                            ![c].index = i,
                            ![c].copy = Some([mem[i] EXCEPT
                                !.fill = Some(PrescriptionFillOf(nf, Len(mem) + 1))])]
    /\ UNCHANGED <<mem, mem_call, mem_result, fill_vars, sql_vars,
                   fold_vars, page_vars, svc_vars, ctor_vars>>

\* Vec::insert(index, element): the elements from index on shift right
InsertAt(s, i, x) == SubSeq(s, 1, i - 1) \o <<x>> \o SubSeq(s, i, Len(s))

\* self.prescriptions.write().unwrap().insert(index, prescription);
\* Ok(prescription_fill)
FillInsert(c) ==
    /\ filler[c].pc = "insert"
    /\ mem' = InsertAt(mem, filler[c].index, unwrap(filler[c].copy))
    /\ filler' = [filler EXCEPT ![c].pc = "done", ![c].returned = "Ok"]
    /\ UNCHANGED <<mem_call, mem_result, fill_vars, sql_vars,
                   fold_vars, page_vars, svc_vars, ctor_vars>>

NoParams == [tag |-> "None", limit |-> 0, offset |-> 0]

FoldIdle ==
    /\ fold_pc = "off" /\ fold_rows = <<>> /\ fold_rows2 = <<>>
    /\ fold_out = Result("None", <<>>) /\ fold_out2 = Result("None", <<>>)

PageIdle ==
    /\ page_pc = "off" /\ page_arg = None /\ page_size_arg = None
    /\ page_inline = NoParams /\ page_shared = NoParams

CallsIdle ==
    /\ create_pc = "idle" /\ prescription = NoPrescription /\ drug_ix = 0
    /\ create_result = Returned("None", 0) /\ submitted = {} /\ committed = {}
    /\ read_call = ReadCall("none", None, None, 0)
    /\ read_result = Result("None", <<>>)

StoreEmpty ==
    /\ prescriptions = {} /\ prescribed_drugs = {} /\ prescription_fills = {}
    /\ now = 1 /\ next_pd_id = 1

FillIdle == fills_built = 0

MemIdle ==
    /\ mem = <<>>
    /\ mem_call = MemCall(0)
    /\ mem_result = Result("None", <<>>)
    /\ filler = [c \in Fillers |-> IdleFiller]

ServiceIdle ==
    /\ entities = [kind \in Kinds |-> {}]
    /\ call = [c \in Calls |-> IdleCall]
    /\ repository_calls = {}

NoChange == [position |-> 0, digit |-> 0]

PeselIdle ==
    /\ pesel_pc = "off" /\ pesel_arg = <<>> /\ pesel_change = NoChange
    /\ pesel_valid = FALSE /\ pesel_changed_valid = FALSE

DraftIdle ==
    /\ draft = NoPrescription
    /\ add_call = NoAdd
    /\ add_result = AddResult("None", 0)

CtorIdle == PeselIdle /\ DraftIdle

Init ==
    /\ StoreEmpty
    /\ CallsIdle
    /\ FillIdle
    /\ FoldIdle
    /\ PageIdle
    /\ MemIdle
    /\ ServiceIdle
    /\ CtorIdle

Next ==
    \/ \E np \in NewPrescriptions : CreateCall(np)
    \/ InsertHeader
    \/ InsertPrescribedDrug
    \/ Commit
    \/ \E page \in PageArgs, page_size \in PageSizeArgs : GetPrescriptions(page, page_size)
    \/ \E id \in 1..(MaxPrescriptions + 1) : GetPrescriptionById(id)

Spec == Init /\ [][Next]_vars

(***************************************************************************)
(* SpecFold: the aggregation fold applied to the joined rows of a bounded  *)
(* store, delivered in any order, and to a reordering of the same rows.    *)
(***************************************************************************)
\* a store of NumFoldIds prescriptions; prescribed drug k belongs to owner[k]
\* and the prescriptions of `filled` have their fill
HeaderRows ==
    {[id |-> i, prescription_type |-> "Regular", created_at |-> i] : i \in 1..NumFoldIds}

PrescribedDrugRows(owner) ==
    {[id |-> k, prescription_id |-> owner[k],
      drug_id |-> k, quantity |-> k] : k \in DOMAIN owner}

FillRows(filled) ==
    {[id |-> i, prescription_id |-> i, pharmacist_id |-> 1,
      created_at |-> NumFoldIds + i] : i \in filled}

InitFold ==
    /\ prescriptions = HeaderRows
    /\ prescribed_drugs \in
          {PrescribedDrugRows(owner) :
              owner \in UNION {[1..n -> 1..NumFoldIds] : n \in 0..MaxFoldRows}}
    /\ prescription_fills \in {FillRows(filled) : filled \in SUBSET (1..NumFoldIds)}
    /\ now = NumFoldIds + 1
    /\ next_pd_id = Cardinality(prescribed_drugs) + 1
    /\ CallsIdle
    /\ FillIdle
    /\ MemIdle
    /\ ServiceIdle
    /\ CtorIdle
    /\ fold_pc = "rows"
    /\ fold_rows \in Orderings(Join(prescriptions))
    /\ fold_rows2 = <<>>
    /\ fold_out = Result("None", <<>>)
    /\ fold_out2 = Result("None", <<>>)
    /\ PageIdle

FoldRows ==
    /\ fold_pc = "rows"
    /\ fold_pc' = "done"
    /\ fold_out' = Folded(fold_rows)
    /\ \E rows2 \in Orderings(Range(fold_rows)) :
        /\ fold_rows2' = rows2
        /\ fold_out2' = Folded(rows2)
    /\ UNCHANGED <<fold_rows, store_vars, create_vars, read_vars, fill_vars, page_vars,
                 mem_vars, svc_vars, ctor_vars>>

NextFold == FoldRows

SpecFold == InitFold /\ [][NextFold]_vars

(***************************************************************************)
(* SpecNulls: the aggregation fold applied to row sequences whose fill     *)
(* columns are null or not independently of each other.                    *)
(***************************************************************************)
\* the k-th row of a sequence: prescribed drug k of one of the
\* prescriptions, each of the four fill columns null or set
NullableRows(k) ==
    [id : 1..NumFoldIds, prescription_type : {"Regular"}, created_at : {1},
     prescribed_drug_id : {k}, drug_id : {k}, quantity : {k},
     fill_id : {None, Some(1)}, fill_pharmacist_id : {None, Some(1)},
     fill_created_at : {None, Some(2)}, fill_updated_at : {None, Some(2)}]

NullableRowSeqs ==
    UNION {{rows \in [1..n -> UNION {NullableRows(k) : k \in 1..n}] :
                \A k \in 1..n : rows[k] \in NullableRows(k)} : n \in 1..MaxLines}

InitNulls ==
    /\ StoreEmpty
    /\ CallsIdle
    /\ FillIdle
    /\ MemIdle
    /\ ServiceIdle
    /\ CtorIdle
    /\ PageIdle
    /\ fold_pc = "rows"
    /\ fold_rows \in NullableRowSeqs
    /\ fold_rows2 = <<>>
    /\ fold_out = Result("None", <<>>)
    /\ fold_out2 = Result("None", <<>>)

\* the fold on the rows as they are delivered
FoldDelivered ==
    /\ fold_pc = "rows"
    /\ fold_pc' = "done"
    /\ fold_out' = Folded(fold_rows)
    /\ UNCHANGED <<fold_rows, fold_rows2, fold_out2, store_vars, create_vars, read_vars,
                   fill_vars, page_vars, mem_vars, svc_vars, ctor_vars>>

NextNulls == FoldDelivered

SpecNulls == InitNulls /\ [][NextNulls]_vars

(***************************************************************************)
(* SpecPage: the pagination policy of the two call sites applied to        *)
(* bounded (page, page_size), in a build with and without overflow checks. *)
(***************************************************************************)
\* small values next to the edges of i16 and products just below and above it
PageValues == (-1..MaxPageArg) \cup {181, 182, 256, I16Max, I16Min}

PageOptions == {None} \cup {Some(v) : v \in PageValues}

InitPage ==
    /\ StoreEmpty
    /\ CallsIdle
    /\ FillIdle
    /\ FoldIdle
    /\ MemIdle
    /\ ServiceIdle
    /\ CtorIdle
    /\ page_pc = "args"
    /\ page_arg \in PageOptions
    /\ page_size_arg \in PageOptions
    /\ page_inline = NoParams
    /\ page_shared = NoParams

Paginate ==
    /\ page_pc = "args"
    /\ page_pc' = "done"
    /\ \E checks \in BOOLEAN :
        page_inline' = InlinePagination(page_arg, page_size_arg, checks)
    /\ page_shared' = get_pagination_params(page_arg, page_size_arg)
    /\ UNCHANGED <<page_arg, page_size_arg, store_vars, create_vars, read_vars, fill_vars,
                 fold_vars, mem_vars, svc_vars, ctor_vars>>

NextPage == Paginate

SpecPage == InitPage /\ [][NextPage]_vars

(***************************************************************************)
(* SpecFill: fill_prescription and get_prescriptions of the SQL-backed     *)
(* repository on a bounded store of prescriptions with any number of line  *)
(* items.                                                                  *)
(***************************************************************************)
InitFill ==
    /\ prescriptions = HeaderRows
    /\ prescribed_drugs \in
          {PrescribedDrugRows(owner) :
              owner \in UNION {[1..n -> 1..NumFoldIds] : n \in 0..MaxFoldRows}}
    /\ prescription_fills = {}
    /\ now = NumFoldIds + 1
    /\ next_pd_id = Cardinality(prescribed_drugs) + 1
    /\ CallsIdle
    /\ FillIdle
    /\ FoldIdle
    /\ PageIdle
    /\ MemIdle
    /\ ServiceIdle
    /\ CtorIdle

\* the (page, page_size) arguments tried against the bounded store: the
\* defaults, which take every prescription, and windows of one prescription
WindowArgs == {None, Some(1)}

WindowSizeArgs == {None, Some(1)}

NextFill ==
    \/ \E nf \in NewPrescriptionFills : FillPrescription(nf)
    \/ \E page \in WindowArgs, page_size \in WindowSizeArgs :
            GetPrescriptions(page, page_size)

SpecFill == InitFill /\ [][NextFill]_vars

(***************************************************************************)
(* SpecRead: get_prescriptions and get_prescription_by_id of the           *)
(* SQL-backed repository on a bounded store in which prescriptions may     *)
(* have no prescribed-drug rows.                                           *)
(***************************************************************************)
InitRead ==
    /\ prescriptions = HeaderRows
    /\ prescribed_drugs \in
          {PrescribedDrugRows(owner) :
              owner \in UNION {[1..n -> 1..NumFoldIds] : n \in 0..MaxFoldRows}}
    /\ prescription_fills \in {FillRows(filled) : filled \in SUBSET (1..NumFoldIds)}
    /\ now = NumFoldIds + 1
    /\ next_pd_id = Cardinality(prescribed_drugs) + 1
    /\ CallsIdle
    /\ FillIdle
    /\ FoldIdle
    /\ PageIdle
    /\ MemIdle
    /\ ServiceIdle
    /\ CtorIdle

NextRead ==
    \/ \E page \in WindowArgs, page_size \in WindowSizeArgs :
            GetPrescriptions(page, page_size)
    \/ \E id \in 1..(NumFoldIds + 1) : GetPrescriptionById(id)

SpecRead == InitRead /\ [][NextRead]_vars

(***************************************************************************)
(* SpecMem: the in-memory prescriptions repository under creates, reads    *)
(* by id and the fill workflows of NumPharmacists pharmacists.             *)
(***************************************************************************)
InitMem ==
    /\ StoreEmpty
    /\ CallsIdle
    /\ FillIdle
    /\ FoldIdle
    /\ PageIdle
    /\ MemIdle
    /\ ServiceIdle
    /\ CtorIdle

NextMem ==
    \/ \E np \in MemNewPrescriptions : MemCreatePrescription(np)
    \/ \E id \in 1..MaxPrescriptions : MemGetPrescriptionById(id)
    \/ \E c \in Fillers, id \in 1..MaxPrescriptions : FillerRead(c, id)
    \/ \E c \in Fillers : FillerBuild(c)
    \/ \E c \in Fillers, id \in 1..MaxPrescriptions : FillerSubmit(c, id)
    \/ \E c \in Fillers : FillLocate(c)
    \/ \E c \in Fillers : FillInsert(c)

SpecMem == InitMem /\ [][NextMem]_vars

(***************************************************************************)
(* SpecService: NumCalls calls on the services, interleaved.               *)
(***************************************************************************)
InitService ==
    /\ StoreEmpty
    /\ CallsIdle
    /\ FillIdle
    /\ FoldIdle
    /\ PageIdle
    /\ MemIdle
    /\ ServiceIdle
    /\ CtorIdle

NextService ==
    \/ \E c \in Calls, kind \in PersonKinds, pesel_number \in PeselNumbers :
            CreateEntity(c, kind, pesel_number)
    \/ \E c \in Calls : RepositoryCreate(c)
    \/ \E c \in Calls, kind \in Kinds, id \in Calls : GetEntityById(c, kind, id)

SpecService == InitService /\ [][NextService]_vars

(***************************************************************************)
(* SpecExpiry: pharmacists read one stored prescription and build a fill   *)
(* with Prescription::fill while the day of its end date passes.           *)
(***************************************************************************)
\* the prescription of the type with one line item, as the in-memory
\* repository holds it after create_prescription
StoredPrescription(prescription_type) ==
    MemPrescription([NewPrescriptionOf(1, prescription_type, StartDate)
                        EXCEPT !.prescribed_drugs = <<LineItem(1)>>], StartDate)

\* the same after the fill of a pharmacist who is none of the callers
FilledPrescription(prescription_type) ==
    [StoredPrescription(prescription_type) EXCEPT
        !.fill = Some(PrescriptionFillOf(NewPrescriptionFill(1, 1, 0), StartDate))]

InitExpiry ==
    /\ prescriptions = {} /\ prescribed_drugs = {} /\ prescription_fills = {}
    /\ next_pd_id = 1
    /\ CallsIdle
    /\ FoldIdle
    /\ PageIdle
    /\ ServiceIdle
    /\ CtorIdle
    /\ \E prescription_type \in AllPrescriptionTypes :
          /\ \/ mem = <<StoredPrescription(prescription_type)>> /\ fills_built = 0
             \/ mem = <<FilledPrescription(prescription_type)>> /\ fills_built = 1
          /\ now \in {StartDate,
                      EndDate(prescription_type, StartDate) - 1,
                      EndDate(prescription_type, StartDate)}
    /\ mem_call = MemCall(0)
    /\ mem_result = Result("None", <<>>)
    /\ filler = [c \in Fillers |-> IdleFiller]

\* Utc::now() moves on: the last day of the prescription and the day after
Tick ==
    /\ now \in {mem[1].end_date - 1, mem[1].end_date}
    /\ now' = now + 1
    /\ UNCHANGED <<prescriptions, prescribed_drugs, prescription_fills, next_pd_id,
                   create_vars, read_vars, fill_vars, fold_vars, page_vars,
                   mem_vars, svc_vars, ctor_vars>>

NextExpiry ==
    \/ Tick
    \/ \E c \in Fillers : FillerRead(c, 1)
    \/ \E c \in Fillers : FillerBuild(c)

SpecExpiry == InitExpiry /\ [][NextExpiry]_vars

(***************************************************************************)
(* SpecDrug: NumCalls calls on the drugs service, interleaved.             *)
(***************************************************************************)
InitDrug ==
    /\ StoreEmpty
    /\ CallsIdle
    /\ FillIdle
    /\ FoldIdle
    /\ PageIdle
    /\ MemIdle
    /\ ServiceIdle
    /\ CtorIdle

NextDrug ==
    \/ \E c \in Calls, args \in DrugArgs : CreateDrug(c, args)
    \/ \E c \in Calls : RepositoryCreateDrug(c)
    \/ \E c \in Calls, id \in Calls : GetEntityById(c, "drug", id)

SpecDrug == InitDrug /\ [][NextDrug]_vars

(***************************************************************************)
(* SpecBuild: a caller builds one NewPrescription of any type with         *)
(* add_drug and gives it to the in-memory repository.                      *)
(***************************************************************************)
InitBuild ==
    /\ StoreEmpty
    /\ CallsIdle
    /\ FillIdle
    /\ FoldIdle
    /\ PageIdle
    /\ MemIdle
    /\ ServiceIdle
    /\ PeselIdle
    /\ draft \in {NewPrescriptionOf(1, prescription_type, StartDate) :
                     prescription_type \in AllPrescriptionTypes}
    /\ add_call = NoAdd
    /\ add_result = AddResult("None", 0)

NextBuild ==
    \/ \E quantity \in TriedQuantities(draft) :
            AddDrug(Len(draft.prescribed_drugs) + 1, quantity)
    \/ MemCreatePrescription(draft)

SpecBuild == InitBuild /\ [][NextBuild]_vars

(***************************************************************************)
(* SpecPesel: the identity-number validator applied to bounded numbers and *)
(* to each of them with one digit changed.                                 *)
(***************************************************************************)
\* the numbers the tests of the services and of the doctors create entities with
TestPesels ==
    {<<9, 6, 0, 2, 1, 8, 0, 7, 2, 5, 0>>,
     <<9, 6, 0, 2, 1, 8, 1, 7, 2, 5, 7>>,
     <<9, 9, 0, 3, 1, 3, 0, 1, 3, 4, 7>>,
     <<9, 2, 0, 2, 2, 9, 0, 0, 0, 0, 2>>}

\* year 96, day 18, serial 0725 with every two-digit month and every last digit
DatedPesels ==
    {<<9, 6, m1, m2, 1, 8, 0, 7, 2, 5, last>> : m1 \in 0..9, m2 \in 0..9, last \in 0..9}

\* and two numbers that have not 11 digits
PeselInputs ==
    TestPesels \cup DatedPesels
        \cup {<<9, 6, 0, 2, 1, 8, 0, 7, 2, 5>>, <<9, 6, 0, 2, 1, 8, 0, 7, 2, 5, 0, 0>>}

\* the number with the digit at one position replaced
Changed(digits, change) == [digits EXCEPT ![change.position] = change.digit]

InitPesel ==
    /\ StoreEmpty
    /\ CallsIdle
    /\ FillIdle
    /\ FoldIdle
    /\ PageIdle
    /\ MemIdle
    /\ ServiceIdle
    /\ DraftIdle
    /\ pesel_pc = "args"
    /\ pesel_arg \in PeselInputs
    /\ pesel_change \in
          {change \in [position : 1..Len(pesel_arg), digit : 0..9] :
              change.digit # pesel_arg[change.position]}
    /\ pesel_valid = FALSE
    /\ pesel_changed_valid = FALSE

ValidatePersonalId ==
    /\ pesel_pc = "args"
    /\ pesel_pc' = "done"
    /\ pesel_valid' = ValidatePesel(pesel_arg)
    /\ pesel_changed_valid' = ValidatePesel(Changed(pesel_arg, pesel_change))
    /\ UNCHANGED <<pesel_arg, pesel_change, draft_vars, sql_vars, fill_vars, fold_vars,
                   page_vars, mem_vars, svc_vars>>

NextPesel == ValidatePersonalId

SpecPesel == InitPesel /\ [][NextPesel]_vars

(***************************************************************************)
(* Properties of the aggregation fold (SpecFold).                          *)
(***************************************************************************)
RowsWithId(rows, id) == {k \in 1..Len(rows) : rows[k].id = id}

\* the prescription ids of rows in the order of their first occurrence
FirstEncounter(rows) ==
    LET F[k \in 0..Len(rows)] ==
            IF k = 0 THEN <<>>
            ELSE IF \E j \in 1..(k - 1) : rows[j].id = rows[k].id
                 THEN F[k - 1]
                 ELSE Append(F[k - 1], rows[k].id)
    IN F[Len(rows)]

\* rows of one prescription are separated by a row of another
Scattered(rows) ==
    \E i, j, k \in 1..Len(rows) :
        i < j /\ j < k /\ rows[i].id = rows[k].id /\ rows[j].id # rows[i].id

\* C3: the fold returns exactly one aggregate per distinct prescription id of
\* the rows, and the prescribed-drug list of each aggregate is as long as the
\* number of rows carrying its id, whether those rows are contiguous or not.
OneAggregatePerId ==
    fold_pc = "done" =>
        /\ fold_out.tag = "Ok"
        /\ {fold_out.list[i].id : i \in 1..Len(fold_out.list)}
               = {fold_rows[k].id : k \in 1..Len(fold_rows)}
        /\ \A i, j \in 1..Len(fold_out.list) :
               fold_out.list[i].id = fold_out.list[j].id => i = j
        /\ \A i \in 1..Len(fold_out.list) :
               Len(fold_out.list[i].prescribed_drugs)
                   = Cardinality(RowsWithId(fold_rows, fold_out.list[i].id))

\* the fold has run on rows of two prescriptions, those of one scattered
OneAggregatePerIdWitness ==
    /\ fold_pc = "done"
    /\ Scattered(fold_rows)
    /\ fold_out.tag = "Ok"
    /\ Len(fold_out.list) = 2
    /\ \E i \in 1..2 : Len(fold_out.list[i].prescribed_drugs) = 2

\* C4: the aggregate of a prescription id has a fill if and only if some row
\* carrying that id has a non-null fill id.
FillIffRowHasFillId ==
    fold_pc = "done" =>
        /\ fold_out.tag = "Ok"
        /\ \A i \in 1..Len(fold_out.list) :
               (fold_out.list[i].fill # None)
                   <=> \E k \in RowsWithId(fold_rows, fold_out.list[i].id) :
                           fold_rows[k].fill_id # None

\* the fold has produced one aggregate with a fill and one without
FillIffRowHasFillIdWitness ==
    /\ fold_pc = "done"
    /\ fold_out.tag = "Ok"
    /\ \E i, j \in 1..Len(fold_out.list) :
           /\ fold_out.list[i].fill # None
           /\ unwrap(fold_out.list[i].fill).prescription_id = fold_out.list[i].id
           /\ fold_out.list[j].fill = None

SameAggregate(a, b) ==
    /\ a.id = b.id
    /\ a.prescription_type = b.prescription_type
    /\ a.created_at = b.created_at
    /\ a.fill = b.fill
    /\ Len(a.prescribed_drugs) = Len(b.prescribed_drugs)
    /\ Range(a.prescribed_drugs) = Range(b.prescribed_drugs)

\* C6: two sequences of the same rows with the same first-encounter order of
\* prescription ids fold to the same sequence of aggregates, each with the
\* same set of line items, whatever the order of the rows of one prescription.
RowOrderWithinPrescriptionIrrelevant ==
    (fold_pc = "done" /\ FirstEncounter(fold_rows) = FirstEncounter(fold_rows2)) =>
        /\ fold_out.tag = "Ok"
        /\ fold_out2.tag = "Ok"
        /\ Len(fold_out.list) = Len(fold_out2.list)
        /\ \A i \in 1..Len(fold_out.list) :
               SameAggregate(fold_out.list[i], fold_out2.list[i])

\* the fold has run on two different orders of the rows of two prescriptions
\* that agree on the first-encounter order, and the line items came out in a
\* different order
RowOrderWithinPrescriptionIrrelevantWitness ==
    /\ fold_pc = "done"
    /\ fold_rows # fold_rows2
    /\ FirstEncounter(fold_rows) = FirstEncounter(fold_rows2)
    /\ Len(fold_out.list) = 2
    /\ \E i \in 1..2 :
           fold_out.list[i].prescribed_drugs # fold_out2.list[i].prescribed_drugs

(***************************************************************************)
(* Properties of the pagination policy (SpecPage).                         *)
(***************************************************************************)
EffectivePage == unwrap_or(page_arg, 0)

EffectivePageSize == unwrap_or(page_size_arg, 10)

\* C7: a listing is rejected with an error if and only if the effective page
\* is < 0 or the effective page_size is < 1 (absent page = 0, absent
\* page_size = 10); every other pair is accepted.
RejectedIffOutOfBounds ==
    page_pc = "done" =>
        ((Bound(page_inline).tag # "Ok")
            <=> (EffectivePage < 0 \/ EffectivePageSize < 1))

\* C8: for every accepted (page, page_size) the limit is page_size and the
\* offset is the mathematical product page * page_size, without wrap-around
\* or abort.
OffsetIsProduct ==
    (page_pc = "done" /\ EffectivePage >= 0 /\ EffectivePageSize >= 1) =>
        /\ page_inline.tag # "Panic"
        /\ page_inline.limit = EffectivePageSize
        /\ page_inline.offset = EffectivePage * EffectivePageSize

\* C9: the inline policy of the SQL-backed prescription listing and the
\* shared get_pagination_params agree on accept/reject and on (limit, offset).
CallSitesAgree ==
    page_pc = "done" =>
        /\ (page_inline.tag = "Ok") <=> (page_shared.tag = "Ok")
        /\ page_inline.tag = "Ok" =>
               /\ page_inline.limit = page_shared.limit
               /\ page_inline.offset = page_shared.offset

(***************************************************************************)
(* Properties of the SQL-backed repository (Spec).                         *)
(***************************************************************************)
Submitted(id) == CHOOSE np \in submitted : np.id = id

\* C1: when create_prescription has returned an error, the store holds
\* neither the header of that prescription nor any of its prescribed-drug
\* rows.
FailedCreateLeavesNothing ==
    (create_pc = "idle" /\ create_result.tag \in {"ValidationError", "StoreError"}) =>
        /\ \A p \in prescriptions : p.id # create_result.id
        /\ \A d \in prescribed_drugs : d.prescription_id # create_result.id

\* C2: a read running while a create_prescription is in flight either does
\* not see the prescription or sees it with every one of its line items.
ConcurrentReadSeesWholePrescription ==
    (read_call.creating /\ read_result.tag = "Ok") =>
        \A i \in 1..Len(read_result.list) :
            Len(read_result.list[i].prescribed_drugs)
                = Len(Submitted(read_result.list[i].id).prescribed_drugs)

\* C5: get_prescriptions lists the prescriptions that successful
\* create_prescription calls stored in the order of their creation, the first
\* created one first.
ListedInCreationOrder ==
    (/\ read_call.op = "get_prescriptions"
     /\ read_result.tag = "Ok"
     /\ \A i \in 1..Len(read_result.list) : read_result.list[i].id \in committed) =>
        \A i, j \in 1..Len(read_result.list) :
            i < j => read_result.list[i].created_at < read_result.list[j].created_at

\* C10: with N stored prescriptions and no create in flight, a listing that
\* returns for (page p, page_size s) returns exactly min(s, max(0, N - p*s))
\* results (absent page = 0, absent page_size = 10).
PageHoldsItsWindow ==
    (/\ read_call.op = "get_prescriptions"
     /\ ~read_call.creating
     /\ read_result.tag = "Ok") =>
        Len(read_result.list)
            = Min(unwrap_or(read_call.page_size, 10),
                  Max(0, read_call.stored
                            - unwrap_or(read_call.page, 0)
                                * unwrap_or(read_call.page_size, 10)))

(***************************************************************************)
(* Properties of the reads and of fill_prescription on a bounded store     *)
(* (SpecFill).                                                             *)
(***************************************************************************)
\* the stored prescribed-drug rows of a prescription
StoredDrugs(id) == {d \in prescribed_drugs : d.prescription_id = id}

\* the window of prescriptions that (page, page_size) denotes
PageWindow(page, page_size) ==
    Range(Window(unwrap_or(page_size, DefaultPageSize),
                 unwrap_or(page, DefaultPage) * unwrap_or(page_size, DefaultPageSize)))

\* C11: limit and offset bound distinct prescriptions, not joined rows: a
\* page lists, once each, exactly the prescriptions of its window that have
\* line items, and each of them with every one of its stored line items.
PageKeepsLineItemsWhole ==
    (read_call.op = "get_prescriptions" /\ read_result.tag = "Ok") =>
        LET listed == read_result.list
        IN /\ {listed[i].id : i \in 1..Len(listed)}
                  = {p.id : p \in {q \in PageWindow(read_call.page, read_call.page_size) :
                                      StoredDrugs(q.id) # {}}}
           /\ \A i, j \in 1..Len(listed) : listed[i].id = listed[j].id => i = j
           /\ \A i \in 1..Len(listed) :
                  /\ Range(listed[i].prescribed_drugs) = StoredDrugs(listed[i].id)
                  /\ Len(listed[i].prescribed_drugs)
                         = Cardinality(StoredDrugs(listed[i].id))

\* a page of size 1 has listed a filled prescription with two line items
\* while a later prescription with line items is stored
PageKeepsLineItemsWholeWitness ==
    /\ read_call.op = "get_prescriptions"
    /\ read_call.page_size = Some(1)
    /\ read_result.tag = "Ok"
    /\ Len(read_result.list) = 1
    /\ Len(read_result.list[1].prescribed_drugs) = 2
    /\ read_result.list[1].fill # None
    /\ \E p \in prescriptions :
           p.id # read_result.list[1].id /\ StoredDrugs(p.id) # {}

(***************************************************************************)
(* Properties of the in-memory repository and its fill workflows (SpecMem).*)
(***************************************************************************)
\* an i32 and a u32 denote the same number
SameQuantity(stored, given) == given.top = 0 /\ stored = given.low

\* the stored line items are exactly the given ones, as a set of
\* (drug id, quantity) pairs
SameLineItems(stored, given) ==
    /\ \A k \in 1..Len(given) : \E j \in 1..Len(stored) :
           /\ stored[j].drug_id = given[k].drug_id
           /\ SameQuantity(stored[j].quantity, given[k].quantity)
    /\ \A j \in 1..Len(stored) : \E k \in 1..Len(given) :
           /\ stored[j].drug_id = given[k].drug_id
           /\ SameQuantity(stored[j].quantity, given[k].quantity)

\* some stored copy of the prescription has a fill
MemFilled(id) == \E i \in 1..Len(mem) : mem[i].id = id /\ mem[i].fill # None

\* C12: after create_prescription has succeeded for a prescription with
\* line items L, get_prescription_by_id with its id returns a prescription
\* with the same id whose line items are exactly L as a set of (drug id,
\* quantity) pairs, and with no fill (nobody having filled it).
CreatedReadsBackTheSame ==
    (/\ mem_call.id \in committed
     /\ mem_call.stored = Len(mem)
     /\ ~MemFilled(mem_call.id)) =>
        /\ mem_result.tag = "Ok"
        /\ mem_result.list[1].id = mem_call.id
        /\ SameLineItems(mem_result.list[1].prescribed_drugs,
                         Submitted(mem_call.id).prescribed_drugs)
        /\ mem_result.list[1].fill = None

\* the prescription as it was created, before any fill
Original(id) == CHOOSE p \in Range(mem) : p.id = id /\ p.fill = None

\* C13: after fill_prescription has succeeded for an existing unfilled
\* prescription, a get_prescription_by_id of it returns a fill with the
\* submitted fill id, prescription id and pharmacist id, and header fields
\* and line items as before the fill.
FillIsReadBack ==
    \A c \in Fillers :
        (filler[c].returned = "Ok" /\ filler[c].target = "unfilled") =>
            LET nf == unwrap(filler[c].fill)
                got == MemGetPrescriptionByIdResult(nf.prescription_id)
            IN /\ got.tag = "Ok"
               /\ got.list[1].fill # None
               /\ unwrap(got.list[1].fill).id = nf.id
               /\ unwrap(got.list[1].fill).prescription_id = nf.prescription_id
               /\ unwrap(got.list[1].fill).pharmacist_id = nf.pharmacist_id
               /\ [got.list[1] EXCEPT !.fill = None] = Original(nf.prescription_id)

\* C14: fill_prescription for a prescription that already has a fill fails
\* with a conflict-class error, and the existing fill is left unchanged.
FilledPrescriptionRefusesFill ==
    \A c \in Fillers :
        (filler[c].pc = "done" /\ filler[c].target = "filled") =>
            /\ filler[c].returned = "Conflict"
            /\ \A i \in 1..Len(mem) :
                   mem[i].fill # None => unwrap(mem[i].fill).id # unwrap(filler[c].fill).id

\* C15: fill_prescription for an id that no prescription has fails with a
\* not-found-class error returned as an error value: the call does not
\* abort and stores no fill.
UnknownPrescriptionIsAnErrorValue ==
    \A c \in Fillers :
        (filler[c].pc = "done" /\ filler[c].target = "missing") =>
            /\ filler[c].returned = "NotFound"
            /\ \A i \in 1..Len(mem) :
                   mem[i].fill # None => unwrap(mem[i].fill).id # unwrap(filler[c].fill).id

\* C16: under every interleaving of fill workflows on one prescription at
\* most one succeeds, and a prescription has at most one fill.
AtMostOneFillPerPrescription ==
    /\ \A c, d \in Fillers :
           (/\ filler[c].returned = "Ok" /\ filler[d].returned = "Ok"
            /\ unwrap(filler[c].fill).prescription_id
                   = unwrap(filler[d].fill).prescription_id) => c = d
    /\ \A i, j \in 1..Len(mem) :
           (mem[i].id = mem[j].id /\ mem[i].fill # None /\ mem[j].fill # None) =>
               mem[i].fill = mem[j].fill

(***************************************************************************)
(* Properties of the services (SpecService).                               *)
(***************************************************************************)
\* C17: a get-by-id for an id with no stored entity fails with a not-found
\* error that is distinguishable from any other storage failure: it is not
\* returned in the variant in which storage failures are returned.
NotFoundIsDistinct ==
    \A c \in Calls :
        (/\ call[c].pc = "done" /\ call[c].op = "get"
         /\ call[c].result.message = "not found") =>
            call[c].result.variant # StorageVariant(call[c].kind)

\* C18: creating a patient or pharmacist whose identity number is stored
\* already fails, the service reports it as a duplicate-identity error and
\* not in the variant of generic storage errors, and the store still holds
\* exactly one entity with that number.
DuplicateIsReported ==
    \A c \in Calls :
        (/\ call[c].pc = "done" /\ call[c].op = "create"
         /\ call[c].result.message = "unique violation") =>
            /\ call[c].result.variant # "Ok"
            /\ call[c].result.variant # StorageVariant(call[c].kind)
            /\ Cardinality({stored \in entities[call[c].kind] :
                                stored.pesel_number = call[c].pesel_number}) = 1

\* C19: of concurrent create calls of one kind with the same identity number
\* at most one succeeds, and no two stored entities of a kind share an
\* identity number.
OneEntityPerIdentity ==
    /\ \A c, d \in Calls :
           (/\ call[c].op = "create" /\ call[d].op = "create"
            /\ call[c].kind = call[d].kind
            /\ call[c].pesel_number = call[d].pesel_number
            /\ call[c].result.variant = "Ok" /\ call[d].result.variant = "Ok") => c = d
    /\ \A kind \in Kinds : \A stored, other \in entities[kind] :
           stored.pesel_number = other.pesel_number => stored = other

\* two create calls of one kind with the same identity number were both
\* past their constructor before either reached the store; one was stored
\* and the other refused
OneEntityPerIdentityWitness ==
    \E c, d \in Calls :
        /\ c # d
        /\ call[c].op = "create" /\ call[d].op = "create"
        /\ call[c].kind = call[d].kind
        /\ call[c].pesel_number = call[d].pesel_number
        /\ call[c].result.variant = "Ok"
        /\ call[c].racing
        /\ call[d].pc = "done"
        /\ call[d].result.message = "unique violation"

ChecksumBalanced(digits) == (WeightedSum(digits, 10) + digits[11]) % 10 = 0

ExactlyRequired(args) ==
    LET has(a) == args[a] # None
    IN CASE args.content_type = "SolidPills" ->
                has("pills_count") /\ has("mg_per_pill")
                    /\ ~has("ml_per_pill") /\ ~has("volume_ml")
         [] args.content_type = "LiquidPills" ->
                has("pills_count") /\ has("ml_per_pill")
                    /\ ~has("mg_per_pill") /\ ~has("volume_ml")
         [] args.content_type = "BottleOfLiquid" ->
                has("volume_ml") /\ ~has("pills_count")
                    /\ ~has("mg_per_pill") /\ ~has("ml_per_pill")
         [] args.content_type = "BottleOfPills" ->
                has("pills_count") /\ has("volume_ml")
                    /\ ~has("mg_per_pill") /\ ~has("ml_per_pill")

SameAttributes(drug, args) ==
    /\ drug.content_type = args.content_type
    /\ \A a \in Attributes : drug[a] = args[a]

DrugCreates == {c \in Calls : call[c].op = "create" /\ call[c].kind = "drug"}

LineItemsWithinOneToTen ==
    /\ Len(draft.prescribed_drugs) <= 10
    /\ Len(add_call.before) = 10 =>
           /\ add_result.tag # "Ok"
           /\ draft.prescribed_drugs = add_call.before
    /\ \A i \in 1..Len(mem) :
           /\ Len(mem[i].prescribed_drugs) >= 1
           /\ Len(mem[i].prescribed_drugs) <= 10

\* the quantity as a number is 0
NonPositive(quantity) == quantity.top = 0 /\ quantity.low <= 0

\* the limits of the prescription types, 0 for none
ClaimedLimit ==
    [t \in AllPrescriptionTypes |->
        IF t = "ForAntibiotics" THEN 1
        ELSE IF t = "ForImmunologicalDrugs" THEN 2
        ELSE IF t = "ForChronicDiseaseDrugs" THEN 4
        ELSE 0]

OverClaimedLimit(prescription_type, quantity) ==
    /\ ClaimedLimit[prescription_type] # 0
    /\ (quantity.top = 1 \/ quantity.low > ClaimedLimit[prescription_type])

\* C24: add_drug rejects a non-positive quantity, and rejects a quantity
\* above the limit of the prescription type (antibiotics 1, immunological 2,
\* chronic-disease 4, regular none) with a quantity-exceeded error naming
\* the drug; a rejected call leaves the line items as they were, and every
\* other call below the cap of 10 is accepted and appends exactly one line
\* item with the given drug id and quantity.
QuantityWithinTypeLimit ==
    add_result.tag # "None" =>
        LET rejected == add_result.tag # "Ok" /\ draft.prescribed_drugs = add_call.before
            appended ==
                /\ add_result.tag = "Ok"
                /\ draft.prescribed_drugs =
                       Append(add_call.before,
                              [drug_id |-> add_call.drug_id, quantity |-> add_call.quantity])
        IN /\ rejected \/ appended
           /\ NonPositive(add_call.quantity) => rejected
           /\ (/\ Len(add_call.before) < 10
               /\ ~NonPositive(add_call.quantity)
               /\ OverClaimedLimit(draft.prescription_type, add_call.quantity)) =>
                  /\ rejected
                  /\ add_result.tag = "QuantityExceeded"
                  /\ add_result.drug_id = add_call.drug_id
           /\ (/\ Len(add_call.before) < 10
               /\ ~NonPositive(add_call.quantity)
               /\ ~OverClaimedLimit(draft.prescription_type, add_call.quantity)) => appended

\* a prescription for chronic-disease drugs took a first drug in quantity 4
\* and was then refused a second one in quantity 5
QuantityWithinTypeLimitWitness ==
    /\ draft.prescription_type = "ForChronicDiseaseDrugs"
    /\ Len(draft.prescribed_drugs) = 1
    /\ draft.prescribed_drugs[1].quantity = U32(0, 4)
    /\ add_call.quantity = U32(0, 5)
    /\ add_call.before = draft.prescribed_drugs
    /\ add_result = AddResult("QuantityExceeded", 2)

(***************************************************************************)
(* Properties of Prescription::fill (SpecExpiry).                          *)
(***************************************************************************)
\* C25: Prescription::fill(pharmacist_id) yields a new fill value, for that
\* prescription and pharmacist, only when the prescription has no fill and
\* the current time is not after its end date; when the prescription is
\* filled already or expired it returns an error and yields no fill value.
FillOnlyUnfilledUnexpired ==
    [][\A c \in Fillers :
          (/\ filler[c].pc = "read"
           /\ filler'[c].pc # "read"
           /\ filler[c].seen.tag = "Ok") =>
              LET p == filler[c].seen.list[1]
              IN IF p.fill = None /\ now <= p.end_date
                 THEN /\ filler'[c].pc = "call"
                      /\ filler'[c].fill # None
                      /\ unwrap(filler'[c].fill).prescription_id = p.id
                      /\ unwrap(filler'[c].fill).pharmacist_id = c
                 ELSE /\ filler'[c].pc = "done"
                      /\ filler'[c].fill = None
                      /\ filler'[c].returned \in {"AlreadyFilled", "Expired"}]_vars

\* of two pharmacists who read the same unfilled prescription, one built
\* its fill on the end date and the other was refused the day after
FillOnlyUnfilledUnexpiredWitness ==
    \E c, d \in Fillers :
        /\ filler[c].pc = "call"
        /\ filler[c].fill # None
        /\ filler[d].pc = "done"
        /\ filler[d].returned = "Expired"
        /\ filler[d].seen = filler[c].seen
        /\ filler[d].fill = None
        /\ now = mem[1].end_date + 1

(***************************************************************************)
(* Properties of the reads on a store with drugless prescriptions          *)
(* (SpecRead).                                                             *)
(***************************************************************************)
\* the stored prescriptions without a prescribed-drug row
Drugless == {p \in prescriptions : StoredDrugs(p.id) = {}}

\* C26: a stored prescription with zero prescribed-drug rows never appears
\* in reads: get_prescriptions omits it from every page, so that a page
\* whose window contains it returns fewer aggregates than the window holds,
\* and get_prescription_by_id of its id returns the not-found error.
DruglessPrescriptionNeverRead ==
    /\ (read_call.op = "get_prescriptions" /\ read_result.tag = "Ok") =>
           LET window == PageWindow(read_call.page, read_call.page_size)
           IN /\ \A i \in 1..Len(read_result.list) :
                     \A p \in Drugless : read_result.list[i].id # p.id
              /\ Len(read_result.list) = Cardinality(window \ Drugless)
              /\ window \cap Drugless # {} =>
                     Len(read_result.list) < Cardinality(window)
    /\ (/\ read_call.op = "get_prescription_by_id"
        /\ \E p \in Drugless : p.id = read_call.id) =>
           read_result = Result("NotFound", <<>>)

\* a listing of both stored prescriptions returned the one that has
\* prescribed drugs and not the filled one that has none
DruglessPrescriptionNeverReadWitness ==
    /\ read_call.op = "get_prescriptions"
    /\ read_call.page = None /\ read_call.page_size = None
    /\ read_result.tag = "Ok"
    /\ Len(read_result.list) = 1
    /\ \E p \in Drugless :
           /\ p.created_at < read_result.list[1].created_at
           /\ \E f \in prescription_fills : f.prescription_id = p.id

(***************************************************************************)
(* Properties of the fold on rows with null fill columns (SpecNulls).      *)
(***************************************************************************)
\* the rows that are the first of their prescription
FirstRows(rows) ==
    {k \in 1..Len(rows) : \A j \in 1..(k - 1) : rows[j].id # rows[k].id}

\* a fill id next to a null pharmacist id or a null fill timestamp
PartialFill(row) ==
    /\ row.fill_id # None
    /\ \/ row.fill_pharmacist_id = None
       \/ row.fill_created_at = None
       \/ row.fill_updated_at = None

\* C27: when the first row encountered for a prescription carries a
\* non-null fill id but a null pharmacist id or a null fill timestamp, the
\* fold does not complete with a result; a fold that completes gives every
\* prescription whose first row has a fill id the fill of that row, never
\* a missing or defaulted one.
PartialFillFailsLoudly ==
    fold_pc = "done" =>
        /\ (\E k \in FirstRows(fold_rows) : PartialFill(fold_rows[k])) =>
               fold_out.tag = "Panic"
        /\ fold_out.tag = "Ok" =>
               \A k \in FirstRows(fold_rows) :
                   fold_rows[k].fill_id # None =>
                       \E i \in 1..Len(fold_out.list) :
                           /\ fold_out.list[i].id = fold_rows[k].id
                           /\ fold_out.list[i].fill # None
                           /\ Some(unwrap(fold_out.list[i].fill).id) = fold_rows[k].fill_id
                           /\ Some(unwrap(fold_out.list[i].fill).pharmacist_id)
                                  = fold_rows[k].fill_pharmacist_id
                           /\ Some(unwrap(fold_out.list[i].fill).created_at)
                                  = fold_rows[k].fill_created_at

\* the fold stopped on the first row of the second prescription, which has
\* a fill id and no pharmacist id, after a first prescription without fill
PartialFillFailsLoudlyWitness ==
    /\ fold_pc = "done"
    /\ Len(fold_rows) = 2
    /\ fold_rows[1].id # fold_rows[2].id
    /\ fold_rows[1].fill_id = None
    /\ fold_rows[2].fill_id # None
    /\ fold_rows[2].fill_pharmacist_id = None
    /\ fold_rows[2].fill_created_at # None
    /\ fold_out.tag = "Panic"

(***************************************************************************)
(* Properties of the in-memory repository's contents (SpecMem).            *)
(***************************************************************************)
\* the ids of what get_prescriptions lists with the default page and size
MemListedIds ==
    LET listed == MemGetPrescriptions(None, None).list
    IN [i \in 1..Len(listed) |-> listed[i].id]

\* C28: after any sequence of create_prescription and fill_prescription
\* calls the stored prescriptions have pairwise distinct ids, there are as
\* many of them as successful creates, and get_prescriptions lists them in
\* the order of their creation, whatever has been filled.
MemIdsDistinctAndCounted ==
    /\ \A i, j \in 1..Len(mem) : mem[i].id = mem[j].id => i = j
    /\ Len(mem) = Cardinality(committed)
    /\ MemListedIds = [i \in 1..Cardinality(committed) |-> i]

=============================================================================
